---------------------------- MODULE Spec2Model ----------------------------
(***************************************************************************)
(* Consumer portfolio analytics of agentic_quant_research_workflow:        *)
(* src/agents/consumer_framework.py, ConsumerQuantFramework.build and the  *)
(* four agents it drives (load_portfolio, summarize_allocation,            *)
(* run_stress_tests, project_growth, build_action_plan, assemble_blueprint,*)
(* to_markdown, write_text).                                               *)
(*                                                                         *)
(* Numbers.  The code computes in Python/pandas floats.  A number is       *)
(* modelled as an exact fraction [n, d] with d > 0 in lowest terms, plus   *)
(* the three non-finite floats the code can produce without raising:       *)
(* NaN = [0, 0], +inf = [1, 0], -inf = [-1, 0].  Rounding error of the     *)
(* binary representation is not modelled.                                  *)
(*                                                                         *)
(* Strings.  An action string is modelled by the fields its f-string       *)
(* prints, each rounded as its format specification rounds it; a static    *)
(* note is an opaque text.                                                 *)
(*                                                                         *)
(* Sorting.  sort_values is called without kind, so the order of rows of   *)
(* equal value is whatever the build's quicksort gives; it is an input of  *)
(* the model (sort_ties), fixed for a run.                                 *)
(*                                                                         *)
(* Specifications.  All share Next, the statements of build in order; they *)
(* differ in the blueprints build is run on:                               *)
(*   Spec               portfolios vary (quantities, prices, asset classes)*)
(*   SpecGrowth         horizon, expected returns, monthly contribution    *)
(*   SpecStress         configured stress scenarios and their shocks       *)
(*   SpecActions        policy targets, rebalance threshold, static notes  *)
(*   SpecConcentration  portfolios of more than five positions, the limit  *)
(*   SpecSections       every subset of the blueprint's sections left out  *)
(*   SpecAsOf           build run for one as-of date, then for another     *)
(*                      (Next plus BuildAgain)                             *)
(*   SpecDaily          run_daily of pipelines/daily_cross_asset.py        *)
(* build always passes months=12 to project_growth; SpecGrowth runs the    *)
(* same statement with every horizon 0..MaxMonths.                         *)
(***************************************************************************)
EXTENDS Integers, Sequences, FiniteSets, TLC

----------------------------------------------------------------------------
(* Arithmetic *)

RECURSIVE GCD(_, _)
GCD(a, b) == IF b = 0 THEN a ELSE GCD(b, a % b)

AbsInt(a) == IF a < 0 THEN -a ELSE a

Sign(a) == IF a > 0 THEN 1 ELSE IF a < 0 THEN -1 ELSE 0

\* The fraction n/d in lowest terms with a positive denominator; n/0 is what a
\* float division by zero yields in pandas: NaN for 0/0, a signed infinity else.
Frac(n, d) ==
  IF d = 0 THEN [n |-> Sign(n), d |-> 0]
  ELSE LET g == GCD(AbsInt(n), AbsInt(d))
           s == IF d < 0 THEN -1 ELSE 1
       IN  [n |-> (s * n) \div g, d |-> (s * d) \div g]

Num(i) == [n |-> i, d |-> 1]
Zero == Num(0)
One == Num(1)
NaN == [n |-> 0, d |-> 0]
Inf == [n |-> 1, d |-> 0]

IsNaN(x) == x.d = 0 /\ x.n = 0
IsFinite(x) == x.d > 0

Neg(x) == [n |-> -x.n, d |-> x.d]

FAdd(x, y) ==
  IF IsNaN(x) \/ IsNaN(y) THEN NaN
  ELSE IF x.d = 0 /\ y.d = 0 THEN (IF x.n = y.n THEN x ELSE NaN)
  ELSE IF x.d = 0 THEN x
  ELSE IF y.d = 0 THEN y
  ELSE Frac(x.n * y.d + y.n * x.d, x.d * y.d)

FSub(x, y) == FAdd(x, Neg(y))

FMul(x, y) ==
  IF IsNaN(x) \/ IsNaN(y) THEN NaN
  ELSE IF x.d = 0 \/ y.d = 0 THEN [n |-> Sign(x.n) * Sign(y.n), d |-> 0]
  ELSE Frac(x.n * y.n, x.d * y.d)

\* Float division as pandas/numpy perform it: no exception on a zero divisor.
FDiv(x, y) ==
  IF IsNaN(x) \/ IsNaN(y) THEN NaN
  ELSE IF x.d = 0 /\ y.d = 0 THEN NaN
  ELSE IF x.d = 0 THEN [n |-> x.n * (IF y.n < 0 THEN -1 ELSE 1), d |-> 0]
  ELSE IF y.d = 0 THEN Zero
  ELSE IF y.n = 0 THEN [n |-> Sign(x.n), d |-> 0]
  ELSE Frac(x.n * y.d, x.d * y.n)

FAbs(x) == [n |-> AbsInt(x.n), d |-> x.d]

\* Comparisons; every comparison with NaN is false, as for floats.
FLt(x, y) ==
  /\ ~IsNaN(x)
  /\ ~IsNaN(y)
  /\ IF x.d = 0 /\ y.d = 0 THEN x.n < y.n
     ELSE IF x.d = 0 THEN x.n < 0
     ELSE IF y.d = 0 THEN y.n > 0
     ELSE x.n * y.d < y.n * x.d

FEq(x, y) == ~IsNaN(x) /\ ~IsNaN(y) /\ x = y
FLe(x, y) == FLt(x, y) \/ FEq(x, y)
FGt(x, y) == FLt(y, x)
FGe(x, y) == FLe(y, x)

\* format(x, ".0f"): the nearest integer, ties to even (x finite).
RoundHalfEven(x) ==
  LET q == x.n \div x.d
      r == x.n - q * x.d
  IN  IF 2 * r < x.d THEN q
      ELSE IF 2 * r > x.d THEN q + 1
      ELSE IF q % 2 = 0 THEN q ELSE q + 1

\* sum(list) of Python: left to right from 0; a NaN or infinity propagates.
RECURSIVE PySum(_)
PySum(s) == IF s = << >> THEN Zero ELSE FAdd(PySum(SubSeq(s, 1, Len(s) - 1)), s[Len(s)])

\* Series.sum() of pandas: skipna=True, so NaN entries are left out and the
\* sum of an empty or all-NaN series is 0.
RECURSIVE PdSum(_)
PdSum(s) ==
  IF s = << >> THEN Zero
  ELSE LET rest == PdSum(SubSeq(s, 1, Len(s) - 1))
           x == s[Len(s)]
       IN  IF IsNaN(x) THEN rest ELSE FAdd(rest, x)

\* dict.get(key, default)
Get(m, k, default) == IF k \in DOMAIN m THEN m[k] ELSE default


\* format(x, ".<k>f") / ".<k>%": x rounded to a multiple of 1/scale; a NaN or
\* an infinity prints as itself.
Fmt(x, scale) ==
  IF IsFinite(x) THEN Frac(RoundHalfEven(FMul(x, Num(scale))), scale) ELSE x

\* range(a, b) of Python as a sequence
Range(a, b) == [i \in 1..(IF b > a THEN b - a ELSE 0) |-> a + i - 1]

\* An insertion-ordered dict is a sequence of [k, v] entries with distinct keys.
Keys(m) == {m[i].k : i \in DOMAIN m}
Lookup(m, key) == (CHOOSE i \in DOMAIN m : m[i].k = key)
OGet(m, key, default) == IF key \in Keys(m) THEN m[Lookup(m, key)].v ELSE default

----------------------------------------------------------------------------
(* ConsumerDataAgent *)

\* blueprint["portfolio"]["holdings"] raises KeyError when either key is
\* missing; an empty list gives a DataFrame without columns, and
\* holdings["quantity"] raises KeyError.
LoadRaises(bp) ==
  IF "portfolio" \notin DOMAIN bp THEN TRUE
  ELSE IF "holdings" \notin DOMAIN bp["portfolio"] THEN TRUE
  ELSE bp["portfolio"]["holdings"] = << >>

ValueOf(h) == Num(h.quantity * h.price)

Values(raw) == [i \in DOMAIN raw |-> ValueOf(raw[i])]

\* WeightOf with the division by the total left out
WeightOfUnnormalised(value, total) == value

\* holdings["value"] / holdings["value"].sum(), for one row
WeightOf(value, total) == FDiv(value, total)

load_portfolio(bp) ==
  LET raw == bp["portfolio"]["holdings"]
      total == PdSum(Values(raw))
  IN  [ holdings |->
          [i \in DOMAIN raw |->
             [ symbol |-> raw[i].symbol,
               asset_class |-> raw[i].asset_class,
               quantity |-> raw[i].quantity,
               price |-> raw[i].price,
               value |-> ValueOf(raw[i]),
               weight |-> WeightOf(ValueOf(raw[i]), total) ]],
        total_value |-> PdSum(Values(raw)),
        profile |-> Get(bp, "user_profile", << >>) ]

----------------------------------------------------------------------------
(* ConsumerAnalyticsAgent *)

Column(holdings, f) == [i \in DOMAIN holdings |-> holdings[i][f]]

\* holdings.groupby("asset_class")["value"].sum()
GroupSum(holdings) ==
  [c \in {holdings[i].asset_class : i \in DOMAIN holdings} |->
     LET InClass(h) == h.asset_class = c
     IN  PdSum(Column(SelectSeq(holdings, InClass), "value"))]

\* allocation.sum()
RECURSIVE SumOver(_, _)
SumOver(allocation, S) ==
  IF S = {} THEN Zero
  ELSE LET c == CHOOSE x \in S : TRUE
       IN  IF IsNaN(allocation[c]) THEN SumOver(allocation, S \ {c})
           ELSE FAdd(SumOver(allocation, S \ {c}), allocation[c])

AllocationTotal(allocation) == SumOver(allocation, DOMAIN allocation)

\* The orders sort_values can leave rows of equal value in.  The call of line
\* 44 names no kind, so pandas sorts with numpy's quicksort, which promises no
\* order among equal keys: what comes out depends on the numpy build and the
\* length of the frame.  Two deterministic outcomes are modelled, the order of
\* the input and its reverse.
SortTies == {"input_order", "reverse_order"}

\* sort_values("value", ascending=False): rows by value descending, rows of
\* equal value in the order the build's quicksort leaves them in
RECURSIVE SortDesc(_, _)
SortDesc(s, ties) ==
  IF s = << >> THEN << >>
  ELSE LET sorted == SortDesc(SubSeq(s, 1, Len(s) - 1), ties)
           x == s[Len(s)]
           Before(h) == IF ties = "input_order" THEN FGe(h.value, x.value)
                        ELSE FGt(h.value, x.value)
           After(h) == ~Before(h)
       IN  SelectSeq(sorted, Before) \o <<x>> \o SelectSeq(sorted, After)

\* .head(n)
HeadN(s, n) == SubSeq(s, 1, IF Len(s) < n THEN Len(s) ELSE n)

TopN == 5

top_positions(holdings, ties) ==
  LET top == HeadN(SortDesc(holdings, ties), TopN)
  IN  [i \in DOMAIN top |->
         [ symbol |-> top[i].symbol, asset_class |-> top[i].asset_class,
           value |-> top[i].value, weight |-> top[i].weight ]]

\* Square with "* 2" written for "** 2"
SquareAsDouble(w) == FMul(w, Num(2))

\* holdings["weight"] ** 2, for one row
Square(w) == FMul(w, w)

\* herfindahl computed on the asset-class weights
herfindahlByClass(holdings) ==
  LET allocation == GroupSum(holdings)
      total == AllocationTotal(allocation)
  IN  SumOver([c \in DOMAIN allocation |-> Square(FDiv(allocation[c], total))],
              DOMAIN allocation)

\* float(((holdings["weight"]) ** 2).sum())
herfindahl(holdings) ==
  PdSum([i \in DOMAIN holdings |-> Square(holdings[i].weight)])

summarize_allocation(holdings, ties) ==
  LET allocation == GroupSum(holdings)
      total == AllocationTotal(allocation)
  IN  [ weights |-> [c \in DOMAIN allocation |-> FDiv(allocation[c], total)],
        top_positions |-> top_positions(holdings, ties),
        herfindahl_index |-> herfindahl(holdings) ]

\* ShockFor written with "or": a per-class shock of 0 falls through to the default
ShockForFalsy(shocks, asset_class) ==
  IF asset_class \in DOMAIN shocks /\ shocks[asset_class] # Zero
  THEN shocks[asset_class]
  ELSE Get(shocks, "default", Zero)

\* shocks.get(row["asset_class"], shocks.get("default", 0.0))
ShockFor(shocks, asset_class) ==
  Get(shocks, asset_class, Get(shocks, "default", Zero))

\* the list shocked_values built for one scenario
ShockedValues(scenario, holdings) ==
  LET shocks == Get(scenario, "shocks", << >>)
  IN  [i \in DOMAIN holdings |->
         FMul(holdings[i].value,
              FAdd(One, ShockFor(shocks, holdings[i].asset_class)))]

\* PnlPct without the zero guard
PnlPctUnguarded(pnl, current_value) == FDiv(pnl, current_value)

\* pnl / current_value if current_value != 0 else 0.0
PnlPct(pnl, current_value) ==
  IF current_value # Zero THEN FDiv(pnl, current_value) ELSE Zero

\* ScenarioOutcome with pnl taken as current value minus scenario value
ScenarioOutcomeLossPositive(name, scenario, holdings) ==
  LET scenario_value == PySum(ShockedValues(scenario, holdings))
      current_value == PdSum(Column(holdings, "value"))
      pnl == FSub(current_value, scenario_value)
  IN  [ name |-> name,
        description |-> Get(scenario, "description", ""),
        pnl |-> pnl,
        pnl_pct |-> PnlPct(pnl, current_value) ]

\* one pass of the loop of run_stress_tests (lines 60-81)
ScenarioOutcome(name, scenario, holdings) ==
  LET scenario_value == PySum(ShockedValues(scenario, holdings))
      current_value == PdSum(Column(holdings, "value"))
      pnl == FSub(scenario_value, current_value)
  IN  [ name |-> name,
        description |-> Get(scenario, "description", ""),
        pnl |-> pnl,
        pnl_pct |-> PnlPct(pnl, current_value) ]

\* run_stress_tests with the outcomes listed last-declared scenario first
run_stress_tests_reversed(bp, holdings) ==
  LET configured == Get(bp, "stress_tests", << >>)
      n == Len(configured)
  IN  [i \in DOMAIN configured |->
         ScenarioOutcome(configured[n + 1 - i].k, configured[n + 1 - i].v,
                         holdings)]

run_stress_tests(bp, holdings) ==
  LET configured == Get(bp, "stress_tests", << >>)
  IN  [i \in DOMAIN configured |->
         ScenarioOutcome(configured[i].k, configured[i].v, holdings)]

\* the shocked_values list of every scenario, in scenario order
StressTrace(bp, holdings) ==
  LET configured == Get(bp, "stress_tests", << >>)
  IN  [i \in DOMAIN configured |-> ShockedValues(configured[i].v, holdings)]

\* the inner loop of project_growth: monthly_return accumulated over the rows
MonthlyReturn(bp, holdings) ==
  LET expected_returns == Get(bp, "expected_returns", << >>)
  IN  PySum([i \in DOMAIN holdings |->
               FMul(holdings[i].weight,
                    FDiv(Get(expected_returns, holdings[i].asset_class, Zero),
                         Num(12)))])

MonthlyContribution(bp) ==
  Get(Get(bp, "action_templates", << >>), "monthly_contribution", Zero)

\* ProjectionMonths with the loop written range(1, months)
ProjectionMonthsShort(n) == Range(1, n)

\* the months visited by the loop of project_growth: range(1, months + 1)
ProjectionMonths(n) == Range(1, n + 1)

\* NextTotal with the contribution added before the month's growth
NextTotalContributionFirst(total, monthly_return, monthly_contribution) ==
  FMul(FAdd(total, monthly_contribution), FAdd(One, monthly_return))

\* total = total * (1 + monthly_return) + monthly_contribution
NextTotal(total, monthly_return, monthly_contribution) ==
  FAdd(FMul(total, FAdd(One, monthly_return)), monthly_contribution)

\* the projection list after the loop body has run for visited[1..k]
RECURSIVE ProjectionLoop(_, _, _, _)
ProjectionLoop(bp, holdings, visited, k) ==
  IF k = 0 THEN << >>
  ELSE LET before == ProjectionLoop(bp, holdings, visited, k - 1)
           total == IF k = 1 THEN PdSum(Column(holdings, "value"))
                    ELSE before[k - 1].projected_value
           next == NextTotal(total, MonthlyReturn(bp, holdings),
                             MonthlyContribution(bp))
       IN  Append(before, [month |-> visited[k], projected_value |-> next])

project_growth(bp, holdings, n) ==
  LET visited == ProjectionMonths(n)
  IN  ProjectionLoop(bp, holdings, visited, Len(visited))

----------------------------------------------------------------------------
(* ConsumerActionAgent *)

RebalanceThreshold(bp) ==
  Get(Get(bp, "action_templates", << >>), "rebalance_threshold", Zero)

\* DriftTriggers with a strict comparison
DriftTriggersStrict(drift, threshold) == FGt(FAbs(drift), threshold)

\* if abs(drift) >= threshold
DriftTriggers(drift, threshold) == FGe(FAbs(drift), threshold)

\* Direction with the two labels exchanged
DirectionInverted(drift) == IF FGt(drift, Zero) THEN "Add" ELSE "Trim"

\* "Trim" if drift > 0 else "Add"
Direction(drift) == IF FGt(drift, Zero) THEN "Trim" ELSE "Add"

\* The f-string of a rebalance action, as the fields it prints: the dollar
\* amount with no decimals, the target as a whole percentage.
RebalanceText(asset_class, target, drift, total_value) ==
  [ kind |-> "rebalance",
    direction |-> Direction(drift),
    dollar |-> Fmt(FMul(FAbs(drift), total_value), 1),
    asset_class |-> asset_class,
    target |-> Fmt(target, 100) ]

\* the loop of generate_rebalance_actions over the first k policy targets
RECURSIVE RebalanceLoop(_, _, _, _, _)
RebalanceLoop(targets, threshold, allocation, total_value, k) ==
  IF k = 0 THEN << >>
  ELSE LET before == RebalanceLoop(targets, threshold, allocation, total_value, k - 1)
           asset_class == targets[k].k
           target == targets[k].v
           current == Get(allocation, asset_class, Zero)
           drift == FSub(current, target)
       IN  IF DriftTriggers(drift, threshold)
           THEN Append(before, RebalanceText(asset_class, target, drift, total_value))
           ELSE before

generate_rebalance_actions(bp, allocation, total_value) ==
  LET targets == Get(bp, "policy_targets", << >>)
  IN  RebalanceLoop(targets, RebalanceThreshold(bp), allocation, total_value,
                    Len(targets))

\* MaxSinglePosition with a default of 0.0
MaxSinglePositionDefaultZero(bp) ==
  Get(Get(bp, "action_templates", << >>), "max_single_position", Zero)

\* self.blueprint.get("action_templates", {}).get("max_single_position", 1.0)
MaxSinglePosition(bp) ==
  Get(Get(bp, "action_templates", << >>), "max_single_position", One)

\* OverLimit with an inclusive comparison
OverLimitInclusive(weight, max_single) == FGe(weight, max_single)

\* if pos["weight"] > max_single
OverLimit(weight, max_single) == FGt(weight, max_single)

\* The f-string of a concentration action: the weight as a percentage with one
\* decimal, the limit as a whole percentage.
ReduceText(pos, max_single) ==
  [ kind |-> "reduce",
    symbol |-> pos.symbol,
    weight |-> Fmt(pos.weight, 1000),
    limit |-> Fmt(max_single, 100) ]

RECURSIVE ConcentrationLoop(_, _, _)
ConcentrationLoop(top, max_single, k) ==
  IF k = 0 THEN << >>
  ELSE LET before == ConcentrationLoop(top, max_single, k - 1)
       IN  IF OverLimit(top[k].weight, max_single)
           THEN Append(before, ReduceText(top[k], max_single))
           ELSE before

generate_concentration_actions(bp, top) ==
  ConcentrationLoop(top, MaxSinglePosition(bp), Len(top))

Notes(bp) == Get(Get(bp, "action_templates", << >>), "notes", << >>)

\* Extend3 with the static notes put first
Extend3NotesFirst(rebalance, concentration, notes) ==
  notes \o rebalance \o concentration

\* actions.extend(rebalance); actions.extend(concentration); actions.extend(notes)
Extend3(rebalance, concentration, notes) == rebalance \o concentration \o notes

build_action_plan(bp, allocation, analytics_, total_value) ==
  Extend3(generate_rebalance_actions(bp, allocation, total_value),
          generate_concentration_actions(bp, Get(analytics_, "top_positions", << >>)),
          Notes(bp))

----------------------------------------------------------------------------
(* ConsumerApplicationAgent *)

derive_app_delivery_plan(bp) ==
  LET targets == Get(bp, "application_targets", << >>)
      ios == Get(targets, "ios", << >>)
      backend == Get(targets, "backend", << >>)
      web == Get(targets, "web", << >>)
  IN  [ ios |-> [ app_name |-> Get(ios, "app_name", ""),
                  primary_flows |-> Get(ios, "primary_flows", << >>),
                  widgets |-> Get(ios, "widgets", << >>),
                  ci_cd |-> Get(ios, "ci_cd", << >>) ],
        backend |-> [ services |-> Get(backend, "services", << >>),
                      api_contracts |-> Get(backend, "api_contracts", << >>),
                      data_schema |-> Get(backend, "data_schema", << >>),
                      hosting |-> Get(backend, "hosting", "") ],
        web |-> [ url |-> Get(web, "url", ""),
                  pages |-> Get(web, "pages", << >>),
                  auth |-> Get(web, "auth", "") ] ]

\* the static "modules" list of assemble_blueprint
Modules ==
  << "Broker CSV/API ingestion",
     "Holdings normalization and cost basis tracking",
     "Factor-lite analytics (allocation, concentration, beta proxies)",
     "Scenario builder for retail-friendly what-if analysis",
     "Goal tracking with monthly contribution planning",
     "Action queue connected to brokerage/trading APIs" >>

\* assemble_blueprint keeping only the projection points after the month of
\* the as-of date
assemble_blueprint_from_as_of(bp, date, state, analytics_, projection_, stress_, actions_) ==
  [ as_of |-> date,
    user_profile |-> Get(state, "profile", << >>),
    portfolio |-> [ total_value |-> Get(state, "total_value", Zero),
                    top_positions |-> Get(analytics_, "top_positions", << >>),
                    weights |-> Get(analytics_, "weights", << >>) ],
    analytics |-> [ herfindahl_index |-> analytics_["herfindahl_index"],
                    stress_tests |-> stress_,
                    projection |-> IF date = "2025-01-31" THEN projection_
                                 ELSE Tail(projection_) ],
    actions |-> actions_,
    modules |-> Modules,
    app_delivery |-> derive_app_delivery_plan(bp) ]

assemble_blueprint(bp, date, state, analytics_, projection_, stress_, actions_) ==
  [ as_of |-> date,
    user_profile |-> Get(state, "profile", << >>),
    portfolio |-> [ total_value |-> Get(state, "total_value", Zero),
                    top_positions |-> Get(analytics_, "top_positions", << >>),
                    weights |-> Get(analytics_, "weights", << >>) ],
    analytics |-> [ herfindahl_index |-> analytics_["herfindahl_index"],
                    stress_tests |-> stress_,
                    projection |-> projection_ ],
    actions |-> actions_,
    modules |-> Modules,
    app_delivery |-> derive_app_delivery_plan(bp) ]

\* The document to_markdown renders, as its heading and the lines of each
\* section with the numbers rounded as the format specifications round them.
to_markdown(app) ==
  [ title |-> app.as_of,
    profile |-> app.user_profile,
    total_value |-> Fmt(app.portfolio.total_value, 1),
    weights |-> [c \in DOMAIN app.portfolio.weights |->
                   Fmt(app.portfolio.weights[c], 1000)],
    top_positions |-> [i \in DOMAIN app.portfolio.top_positions |->
                   [ symbol |-> app.portfolio.top_positions[i].symbol,
                     weight |-> Fmt(app.portfolio.top_positions[i].weight, 1000),
                     value |-> Fmt(app.portfolio.top_positions[i].value, 1) ]],
    herfindahl_index |-> Fmt(app.analytics.herfindahl_index, 1000),
    stress_tests |-> [i \in DOMAIN app.analytics.stress_tests |->
                   [ name |-> app.analytics.stress_tests[i].name,
                     description |-> app.analytics.stress_tests[i].description,
                     pnl |-> Fmt(app.analytics.stress_tests[i].pnl, 1),
                     pnl_pct |-> Fmt(app.analytics.stress_tests[i].pnl_pct, 1000) ]],
    projection |-> [i \in DOMAIN app.analytics.projection |->
                   [ month |-> app.analytics.projection[i].month,
                     projected_value |->
                       Fmt(app.analytics.projection[i].projected_value, 1) ]],
    actions |-> app.actions,
    modules |-> app.modules,
    app_delivery |-> app.app_delivery ]

\* output_dir / f"consumer_quant_blueprint_{as_of}.md"
OutputPath(date) == date

----------------------------------------------------------------------------
(* Daily cross-asset pipeline: the agents run_daily drives.  A frame is the  *)
(* sequence of its rows; a dict is a sequence of [k, v] records in insertion *)
(* order.                                                                    *)

\* fetch_benchmark_returns: the rows of BENCHMARK_RETURNS whose BENCHMARK_ID is
\* in the universe, as the warehouse returns them
fetch_benchmark_returns(table, universe) ==
  LET InUniverse(row) == \E i \in DOMAIN universe : universe[i] = row.BENCHMARK_ID
  IN  SelectSeq(table, InUniverse)

\* compute_standard_returns: DAILY_RETURN renamed RETURN, the three columns
\* of the common schema kept; an empty frame is passed through
compute_standard_returns(raw_frames) ==
  [i \in DOMAIN raw_frames |->
     [ k |-> raw_frames[i].k,
       v |-> [j \in DOMAIN raw_frames[i].v |->
                [ AS_OF_DATE |-> raw_frames[i].v[j].AS_OF_DATE,
                  BENCHMARK_ID |-> raw_frames[i].v[j].BENCHMARK_ID,
                  RETURN |-> raw_frames[i].v[j].DAILY_RETURN ]] ]]

\* Nunique counting the rows of the frame
NuniqueRows(df) == Len(df)

\* df["BENCHMARK_ID"].nunique() if not df.empty else 0
Nunique(df) == Cardinality({ df[j].BENCHMARK_ID : j \in DOMAIN df })

\* actual / expected if expected > 0 else 1.0
Coverage(actual, expected) ==
  IF expected > 0 THEN Frac(actual, expected) ELSE One

\* DataAgent._compute_data_diagnostics
compute_data_diagnostics(standardized, benchmarks_cfg) ==
  [i \in DOMAIN standardized |->
     LET asset_class == standardized[i].k
         expected == Len(OGet(benchmarks_cfg, asset_class, << >>).universe)
         actual == Nunique(standardized[i].v)
     IN  [ k |-> asset_class,
           v |-> [ expected |-> expected, actual |-> actual,
                   coverage |-> Coverage(actual, expected) ] ]]

\* DataAgent.load_cross_asset_returns
load_cross_asset_returns(benchmarks_cfg, table) ==
  LET raw_frames ==
        [i \in DOMAIN benchmarks_cfg |->
           [ k |-> benchmarks_cfg[i].k,
             v |-> fetch_benchmark_returns(table, benchmarks_cfg[i].v.universe) ]]
      standardized == compute_standard_returns(raw_frames)
  IN  [ raw |-> raw_frames,
        standardized |-> standardized,
        diagnostics |-> compute_data_diagnostics(standardized, benchmarks_cfg) ]

\* run_factor_timing_models: a placeholder signal for every non-empty frame
run_factor_timing_models(standardized, config) ==
  LET NonEmpty(item) == item.v # << >>
      kept == SelectSeq(standardized, NonEmpty)
  IN  [ config |-> config,
        signals |-> [i \in DOMAIN kept |->
                       [ k |-> kept[i].k,
                         v |-> [ dummy_signal |-> Zero,
                                 horizons |-> Get(config, "horizons", << >>) ] ]] ]

\* ModelAgent.run_models (the SAA optimizer is switched off in the
\* configurations modelled)
run_models(models_cfg, data_bundle) ==
  LET risk == [ risk_metrics |-> [ volatility |-> << >>, correlations |-> << >> ] ]
  IN  IF Get(Get(models_cfg, "factor_timing", << >>), "enabled", FALSE)
      THEN [ factor_timing |->
               run_factor_timing_models(data_bundle.standardized,
                                        models_cfg["factor_timing"]) ] @@ risk
      ELSE risk

\* the file create_daily_summary writes, as what it prints: the title, a
\* coverage line per asset class and the factor-timing section it chooses
create_daily_summary(date, data_bundle, model_results_) ==
  [ title |-> date,
    coverage |-> [i \in DOMAIN data_bundle.diagnostics |->
                    [ asset_class |-> data_bundle.diagnostics[i].k,
                      coverage |-> Fmt(data_bundle.diagnostics[i].v.coverage, 1000),
                      actual |-> data_bundle.diagnostics[i].v.actual,
                      expected |-> data_bundle.diagnostics[i].v.expected ]],
    factor_timing |-> "factor_timing" \in DOMAIN model_results_ ]

\* output_dir / f"summary_{as_of}.md"
SummaryPath(date) == <<"summary", date>>

\* Path(output["file"])
FeedPath(file) == <<"dashboard", file>>

\* the payload write_dashboard_feeds dumps into every output file
FeedPayload(output, data_bundle, model_results_) ==
  [ meta |-> [ description |-> Get(output, "description", "") ],
    data |-> [ diagnostics |-> Get(data_bundle, "diagnostics", << >>),
               factor_timing |-> Get(model_results_, "factor_timing", << >>),
               saa |-> Get(model_results_, "saa", << >>) ] ]

\* os.getenv(name): the value of the variable, "None" when it is not set
Getenv(environ, name) == Get(environ, name, "None")

\* "not token": no variable, or an empty one
NoToken(token) == token \in {"None", ""}

\* BelowThreshold written with <=
BelowOrAtThreshold(coverage) == FLe(coverage, Frac(4, 5))

\* stats["coverage"] < 0.8
BelowThreshold(coverage) == FLt(coverage, Frac(4, 5))

\* the request create_issue posts for log_data_quality_issue: the title with
\* the coverage printed as .1%
IssueRequest(date, asset_class, coverage) ==
  [ asset_class |-> asset_class, coverage |-> Fmt(coverage, 1000), as_of |-> date ]

----------------------------------------------------------------------------
(* ConsumerQuantFramework.build and run_daily as state machines *)

VARIABLES
  blueprint,       \* self.blueprint, the parsed YAML document
  as_of,           \* the as_of argument of build
  months,          \* the months argument handed to project_growth
  sort_ties,       \* the order the build's quicksort leaves equal keys in
  pc,              \* the statement of build that runs next
  data_state,      \* result of load_portfolio
  analytics,       \* result of summarize_allocation
  shocked_values,  \* run_stress_tests: the shocked_values list of each scenario
  stress_tests,    \* result of run_stress_tests
  projection,      \* result of project_growth
  actions,         \* result of build_action_plan
  app_blueprint,   \* result of assemble_blueprint
  markdown,        \* result of to_markdown
  files,           \* the output directory: path -> text written
  reports,         \* history: as-of date -> the app_blueprint of the build that
                   \* wrote the report of that date
  daily_cfg,       \* run_daily: the YAML configurations of its agents
  warehouse,       \* run_daily: the rows of the table BENCHMARK_RETURNS
  github_token,    \* GitHubAgent._token, read from the environment
  daily_pc,        \* the statement of run_daily that runs next
  data_bundle,     \* result of load_cross_asset_returns
  model_results,   \* result of run_models
  summary_path,    \* result of create_daily_summary
  loop_index,      \* the diagnostics item the loop of run_daily is at
  requests         \* the requests posted to the issues API, in order

inputs == <<blueprint, as_of, months, sort_ties>>
results == <<data_state, analytics, shocked_values, stress_tests, projection,
             actions, app_blueprint, markdown, files>>
daily == <<daily_cfg, warehouse, github_token, daily_pc, data_bundle,
           model_results, summary_path, loop_index, requests>>
vars == <<blueprint, as_of, months, sort_ties, pc, data_state, analytics,
          shocked_values, stress_tests, projection, actions, app_blueprint,
          markdown, files, reports, daily>>

None == << >>

\* run_daily is not run
DailyIdle ==
  /\ daily_cfg = None
  /\ warehouse = None
  /\ github_token = "None"
  /\ daily_pc = "idle"
  /\ data_bundle = None
  /\ model_results = None
  /\ summary_path = None
  /\ loop_index = 0
  /\ requests = << >>

\* The state when build is entered, for a set of blueprints, as-of dates and
\* projection horizons.
InitWith(Blueprints, Dates, Horizons) ==
  /\ blueprint \in Blueprints
  /\ as_of \in Dates
  /\ months \in Horizons
  /\ sort_ties \in SortTies
  /\ pc = "load_portfolio"
  /\ data_state = None
  /\ analytics = None
  /\ shocked_values = None
  /\ stress_tests = None
  /\ projection = None
  /\ actions = None
  /\ app_blueprint = None
  /\ markdown = None
  /\ files = << >>
  /\ reports = << >>
  /\ DailyIdle

\* line 337: data_state = self.data_agent.load_portfolio()
LoadPortfolio ==
  /\ pc = "load_portfolio"
  /\ ~LoadRaises(blueprint)
  /\ data_state' = load_portfolio(blueprint)
  /\ pc' = "summarize_allocation"
  /\ UNCHANGED <<daily, inputs, reports, analytics, shocked_values, stress_tests, projection,
                 actions, app_blueprint, markdown, files>>

\* line 337, the KeyError of load_portfolio leaves build
LoadPortfolioRaises ==
  /\ pc = "load_portfolio"
  /\ LoadRaises(blueprint)
  /\ pc' = "raised"
  /\ UNCHANGED <<daily, inputs, results, reports>>

\* SummarizeAllocation with the frame sorted in place
\* (sort_values(..., inplace=True))
SummarizeAllocationInPlace ==
  /\ pc = "summarize_allocation"
  /\ analytics' = summarize_allocation(data_state.holdings, sort_ties)
  /\ data_state' = [data_state EXCEPT
                      !.holdings = SortDesc(data_state.holdings, sort_ties)]
  /\ pc' = "run_stress_tests"
  /\ UNCHANGED <<daily, inputs, reports, shocked_values, stress_tests, projection,
                 actions, app_blueprint, markdown, files>>

\* line 338
SummarizeAllocation ==
  /\ pc = "summarize_allocation"
  /\ analytics' = summarize_allocation(data_state.holdings, sort_ties)
  /\ pc' = "run_stress_tests"
  /\ UNCHANGED <<daily, inputs, reports, data_state, shocked_values, stress_tests, projection,
                 actions, app_blueprint, markdown, files>>

\* line 339
RunStressTests ==
  /\ pc = "run_stress_tests"
  /\ shocked_values' = StressTrace(blueprint, data_state.holdings)
  /\ stress_tests' = run_stress_tests(blueprint, data_state.holdings)
  /\ pc' = "project_growth"
  /\ UNCHANGED <<daily, inputs, reports, data_state, analytics, projection, actions,
                 app_blueprint, markdown, files>>

\* line 340
ProjectGrowth ==
  /\ pc = "project_growth"
  /\ projection' = project_growth(blueprint, data_state.holdings, months)
  /\ pc' = "build_action_plan"
  /\ UNCHANGED <<daily, inputs, reports, data_state, analytics, shocked_values, stress_tests,
                 actions, app_blueprint, markdown, files>>

\* line 341
BuildActionPlan ==
  /\ pc = "build_action_plan"
  /\ actions' = build_action_plan(blueprint, Get(analytics, "weights", << >>),
                                  analytics, data_state.total_value)
  /\ pc' = "assemble_blueprint"
  /\ UNCHANGED <<daily, inputs, reports, data_state, analytics, shocked_values, stress_tests,
                 projection, app_blueprint, markdown, files>>

\* lines 343-350
AssembleBlueprint ==
  /\ pc = "assemble_blueprint"
  /\ app_blueprint' = assemble_blueprint(blueprint, as_of, data_state, analytics,
                                         projection, stress_tests, actions)
  /\ pc' = "to_markdown"
  /\ UNCHANGED <<daily, inputs, reports, data_state, analytics, shocked_values, stress_tests,
                 projection, actions, markdown, files>>

\* line 352
ToMarkdown ==
  /\ pc = "to_markdown"
  /\ markdown' = to_markdown(app_blueprint)
  /\ pc' = "write_text"
  /\ UNCHANGED <<daily, inputs, reports, data_state, analytics, shocked_values, stress_tests,
                 projection, actions, app_blueprint, files>>

\* WriteText run in place of to_markdown: the file is written before the
\* report is rendered
WriteTextBeforeRender ==
  /\ pc = "to_markdown"
  /\ files' = [p \in DOMAIN files \cup {OutputPath(as_of)} |->
                 IF p = OutputPath(as_of) THEN markdown ELSE files[p]]
  /\ reports' = [d \in DOMAIN reports \cup {as_of} |->
                   IF d = as_of THEN app_blueprint ELSE reports[d]]
  /\ pc' = "returned"
  /\ UNCHANGED <<daily, inputs, data_state, analytics, shocked_values, stress_tests,
                 projection, actions, app_blueprint, markdown>>

\* lines 353-357
WriteText ==
  /\ pc = "write_text"
  /\ files' = [p \in DOMAIN files \cup {OutputPath(as_of)} |->
                 IF p = OutputPath(as_of) THEN markdown ELSE files[p]]
  /\ reports' = [d \in DOMAIN reports \cup {as_of} |->
                   IF d = as_of THEN app_blueprint ELSE reports[d]]
  /\ pc' = "returned"
  /\ UNCHANGED <<daily, inputs, data_state, analytics, shocked_values, stress_tests,
                 projection, actions, app_blueprint, markdown>>

Next ==
  \/ LoadPortfolio
  \/ LoadPortfolioRaises
  \/ SummarizeAllocation
  \/ RunStressTests
  \/ ProjectGrowth
  \/ BuildActionPlan
  \/ AssembleBlueprint
  \/ ToMarkdown
  \/ WriteText

----------------------------------------------------------------------------
(* run_daily (pipelines/daily_cross_asset.py), statement by statement *)

\* the variables of build other than the output files
build == <<inputs, pc, data_state, analytics, shocked_values, stress_tests,
           projection, actions, app_blueprint, markdown, reports>>

\* the files of m written over those of the directory
WriteFiles(directory, m) ==
  [p \in DOMAIN directory \cup DOMAIN m |->
     IF p \in DOMAIN m THEN m[p] ELSE directory[p]]

\* line 23: data_bundle = data_agent.load_cross_asset_returns(as_of_date=as_of)
LoadCrossAssetReturns ==
  /\ daily_pc = "load_cross_asset_returns"
  /\ data_bundle' = load_cross_asset_returns(daily_cfg.benchmarks, warehouse)
  /\ daily_pc' = "run_models"
  /\ UNCHANGED <<build, files, daily_cfg, warehouse, github_token, model_results,
                 summary_path, loop_index, requests>>

\* line 24
RunModels ==
  /\ daily_pc = "run_models"
  /\ model_results' = run_models(daily_cfg.models, data_bundle)
  /\ daily_pc' = "create_daily_summary"
  /\ UNCHANGED <<build, files, daily_cfg, warehouse, github_token, data_bundle,
                 summary_path, loop_index, requests>>

\* line 25
CreateDailySummary ==
  /\ daily_pc = "create_daily_summary"
  /\ files' = WriteFiles(files, SummaryPath(as_of) :>
                            create_daily_summary(as_of, data_bundle, model_results))
  /\ summary_path' = SummaryPath(as_of)
  /\ daily_pc' = "publish_daily_feeds"
  /\ UNCHANGED <<build, daily_cfg, warehouse, github_token, data_bundle,
                 model_results, loop_index, requests>>

\* line 26: write_dashboard_feeds over the outputs of daily_overview
PublishDailyFeeds ==
  /\ daily_pc = "publish_daily_feeds"
  /\ LET outputs == Get(Get(daily_cfg.dashboards, "daily_overview", << >>),
                        "outputs", << >>)
     IN  files' = WriteFiles(files,
                    [p \in { FeedPath(outputs[i].file) : i \in DOMAIN outputs } |->
                       LET last == CHOOSE i \in DOMAIN outputs :
                                     /\ FeedPath(outputs[i].file) = p
                                     /\ \A j \in DOMAIN outputs :
                                          FeedPath(outputs[j].file) = p => j <= i
                       IN  FeedPayload(outputs[last], data_bundle, model_results)])
  /\ loop_index' = 1
  /\ daily_pc' = "diagnostics_loop"
  /\ UNCHANGED <<build, daily_cfg, warehouse, github_token, data_bundle,
                 model_results, summary_path, requests>>

\* the diagnostics item the loop of lines 28-30 is at
LoopItem == data_bundle.diagnostics[loop_index]

InLoop ==
  /\ daily_pc = "diagnostics_loop"
  /\ loop_index \in DOMAIN data_bundle.diagnostics

\* lines 28-29: the coverage of the class is not below 0.8
SkipAssetClass ==
  /\ InLoop
  /\ ~BelowThreshold(LoopItem.v.coverage)
  /\ loop_index' = loop_index + 1
  /\ UNCHANGED <<build, files, daily_cfg, warehouse, github_token, daily_pc,
                 data_bundle, model_results, summary_path, requests>>

\* line 30 without a token: create_issue returns None at its first statement
LogIssueWithoutToken ==
  /\ InLoop
  /\ BelowThreshold(LoopItem.v.coverage)
  /\ NoToken(github_token)
  /\ loop_index' = loop_index + 1
  /\ UNCHANGED <<build, files, daily_cfg, warehouse, github_token, daily_pc,
                 data_bundle, model_results, summary_path, requests>>

\* line 30 with a token: create_issue posts the request; whatever status the
\* API answers with (201 or not), create_issue returns and the loop goes on
LogDataQualityIssue ==
  /\ InLoop
  /\ BelowThreshold(LoopItem.v.coverage)
  /\ ~NoToken(github_token)
  /\ requests' = Append(requests,
                        IssueRequest(as_of, LoopItem.k, LoopItem.v.coverage))
  /\ loop_index' = loop_index + 1
  /\ UNCHANGED <<build, files, daily_cfg, warehouse, github_token, daily_pc,
                 data_bundle, model_results, summary_path>>

\* line 30 with a token: requests.post sends the request and raises (no
\* answer from the network); the exception leaves run_daily
LogDataQualityIssueRaises ==
  /\ InLoop
  /\ BelowThreshold(LoopItem.v.coverage)
  /\ ~NoToken(github_token)
  /\ requests' = Append(requests,
                        IssueRequest(as_of, LoopItem.k, LoopItem.v.coverage))
  /\ daily_pc' = "raised"
  /\ UNCHANGED <<build, files, daily_cfg, warehouse, github_token, data_bundle,
                 model_results, summary_path, loop_index>>

\* line 32: the loop is over, run_daily prints the path and returns
ReturnDaily ==
  /\ daily_pc = "diagnostics_loop"
  /\ loop_index = Len(data_bundle.diagnostics) + 1
  /\ daily_pc' = "returned"
  /\ UNCHANGED <<build, files, daily_cfg, warehouse, github_token, data_bundle,
                 model_results, summary_path, loop_index, requests>>

NextDaily ==
  \/ LoadCrossAssetReturns
  \/ RunModels
  \/ CreateDailySummary
  \/ PublishDailyFeeds
  \/ SkipAssetClass
  \/ LogIssueWithoutToken
  \/ LogDataQualityIssue
  \/ LogDataQualityIssueRaises
  \/ ReturnDaily

----------------------------------------------------------------------------
(* Blueprints: the YAML documents build is run on *)

MaxHoldings == 3       \* positions of a portfolio in Spec
MaxTopHoldings == 6    \* positions of a portfolio in SpecConcentration
MaxScenarios == 2      \* configured stress scenarios in SpecStress
MaxTargets == 2        \* policy targets in SpecActions
MaxNotes == 2          \* static notes in SpecActions
MaxMonths == 3         \* projection horizon in SpecGrowth
MaxClasses == 2        \* asset classes of the benchmarks configuration in SpecDaily
MaxUniverse == 5       \* benchmarks in the universe of an asset class in SpecDaily

\* months=12, the horizon build passes to project_growth
BuildMonths == 12

\* Holdings lists of up to n records; the symbol of a record is its rank in
\* the list.  Quantities and prices are non-negative.
HoldingLists(n, Classes, Quantities, Prices) ==
  UNION { { [i \in 1..k |-> [ symbol |-> i, asset_class |-> f[i].c,
                              quantity |-> f[i].q, price |-> f[i].p ]] :
            f \in [1..k -> [c : Classes, q : Quantities, p : Prices]] } :
          k \in 0..n }

\* dicts with keys among K and values in V
OptMaps(K, V) == UNION { [D -> V] : D \in SUBSET K }

\* insertion-ordered dicts with the keys names[1..k], k <= n, and values in V
OrderedMaps(names, n, V) ==
  UNION { { [i \in 1..k |-> [k |-> names[i], v |-> f[i]]] : f \in [1..k -> V] } :
          k \in 0..n }

\* sequences of up to n distinct elements of S
DistinctSeqs(S, n) ==
  UNION { { q \in [1..k -> S] : \A i, j \in 1..k : q[i] = q[j] => i = j } :
          k \in 0..n }

Half == Frac(1, 2)
Quarter == Frac(1, 4)

BaseScenarios ==
  << [k |-> "equity_crash",
      v |-> [description |-> "Equities fall 20%",
             shocks |-> ("equity" :> Frac(-1, 5)) @@ ("default" :> Zero)]] >>

BaseTemplates ==
  [ rebalance_threshold |-> Frac(1, 20),
    max_single_position |-> Half,
    notes |-> << [kind |-> "note", text |-> "Review quarterly"] >> ]

BaseSections ==
  [ user_profile |-> [risk_tolerance |-> "moderate"],
    stress_tests |-> BaseScenarios,
    policy_targets |-> << [k |-> "equity", v |-> Half] >>,
    action_templates |-> BaseTemplates ]

WithHoldings(holdings, sections) ==
  ("portfolio" :> ("holdings" :> holdings)) @@ sections

\* documents without a usable portfolio section
NoPortfolio == { BaseSections, ("portfolio" :> << >>) @@ BaseSections }

PortfolioBlueprints ==
  { WithHoldings(h, BaseSections) :
      h \in HoldingLists(MaxHoldings, {"equity", "bond"}, {0, 2}, {1, 3}) }
  \cup NoPortfolio

AsOf == "2025-01-31"

Init == InitWith(PortfolioBlueprints, {AsOf}, {BuildMonths})

Spec == Init /\ [][Next]_vars

----------------------------------------------------------------------------
(* Properties of load_portfolio and summarize_allocation, checked under Spec *)

Loaded == pc \notin {"load_portfolio", "raised"}

Summarized == pc \notin {"load_portfolio", "raised", "summarize_allocation"}

\* |x - y| <= 1/parts, for finite x and y
WithinOneIn(x, y, parts) ==
  LET diff == FAbs(FSub(x, y))
  IN  IsFinite(diff) /\ (diff.n = 0 \/ diff.d \div diff.n >= parts)

Billion == 1000 * 1000 * 1000

WeightSum == PySum(Column(data_state.holdings, "weight"))

\* C1: whenever load_portfolio has returned a portfolio whose total value is
\* greater than 0, the position weights sum to 1 within 1e-9.
C1_WeightsSumToOne ==
  (Loaded /\ FGt(data_state.total_value, Zero))
    => WithinOneIn(WeightSum, One, Billion)

\* load_portfolio has returned three positions of positive total value, one of
\* them with a weight strictly between 0 and 1
C1_Witness ==
  /\ Loaded
  /\ Len(data_state.holdings) = 3
  /\ FGt(data_state.total_value, One)
  /\ \E i \in DOMAIN data_state.holdings :
       /\ FGt(data_state.holdings[i].weight, Zero)
       /\ FLt(data_state.holdings[i].weight, One)

\* C2 as claimed: whenever load_portfolio has returned a portfolio whose total
\* value is 0 (every quantity or price zero), every position weight is 0.0.
C2_ZeroTotalGivesZeroWeights ==
  (Loaded /\ data_state.total_value = Zero)
    => \A i \in DOMAIN data_state.holdings :
         data_state.holdings[i].weight = Zero

\* C3: whenever summarize_allocation has returned for a portfolio with total
\* value > 0, the Herfindahl index lies in [0, 1].
C3_HerfindahlInUnitInterval ==
  (Summarized /\ FGt(data_state.total_value, Zero))
    => /\ FGe(analytics.herfindahl_index, Zero)
       /\ FLe(analytics.herfindahl_index, One)

\* summarize_allocation has returned an index strictly inside (0, 1) for a
\* portfolio of three positions
C3_Witness ==
  /\ Summarized
  /\ Len(data_state.holdings) = 3
  /\ FGt(data_state.total_value, Zero)
  /\ FGt(analytics.herfindahl_index, Zero)
  /\ FLt(analytics.herfindahl_index, One)

\* the sum of the squared asset-class weights of the allocation
SquaredClassWeights ==
  SumOver([c \in DOMAIN analytics.weights |-> Square(analytics.weights[c])],
          DOMAIN analytics.weights)

\* two different positions of positive value share an asset class
TwoPositionsInOneClass ==
  \E i, j \in DOMAIN data_state.holdings :
    /\ i # j
    /\ data_state.holdings[i].asset_class = data_state.holdings[j].asset_class
    /\ FGt(data_state.holdings[i].value, Zero)
    /\ FGt(data_state.holdings[j].value, Zero)

\* C14: whenever summarize_allocation has returned, the Herfindahl index is
\* the sum of the squared weights of the individual positions; for a
\* portfolio with two or more positions of positive value in one asset class
\* it is strictly smaller than the sum of the squared asset-class weights.
C14_HerfindahlIsPositionLevel ==
  Summarized =>
    /\ analytics.herfindahl_index =
         PdSum([i \in DOMAIN data_state.holdings |->
                  FMul(data_state.holdings[i].weight, data_state.holdings[i].weight)])
    /\ TwoPositionsInOneClass =>
         FLt(analytics.herfindahl_index, SquaredClassWeights)

\* summarize_allocation has returned for two equity positions and a bond
\* position, all of positive value
C14_Witness ==
  /\ Summarized
  /\ TwoPositionsInOneClass
  /\ DOMAIN analytics.weights = {"equity", "bond"}
  /\ \A i \in DOMAIN data_state.holdings : FGt(data_state.holdings[i].value, Zero)

\* the blueprint has a portfolio.holdings list and the list is empty
EmptyHoldings ==
  IF "portfolio" \in DOMAIN blueprint
  THEN IF "holdings" \in DOMAIN blueprint["portfolio"]
       THEN blueprint["portfolio"]["holdings"] = << >>
       ELSE FALSE
  ELSE FALSE

\* C18: for an empty holdings list load_portfolio and summarize_allocation do
\* not raise, and summarize_allocation returns an empty weights mapping, an
\* empty top_positions list and a Herfindahl index of 0.0.
C18_EmptyHoldingsSummarized ==
  EmptyHoldings =>
    /\ pc # "raised"
    /\ Summarized =>
         /\ analytics.weights = << >>
         /\ analytics.top_positions = << >>
         /\ analytics.herfindahl_index = Zero

\* the stages of build in the order of its statements, and where each
\* leaves its output
Stages ==
  << "load_portfolio", "summarize_allocation", "run_stress_tests",
     "project_growth", "build_action_plan", "assemble_blueprint", "to_markdown",
     "write_text" >>

Outputs ==
  << data_state, analytics, <<shocked_values, stress_tests>>, projection,
     actions, app_blueprint, markdown, files >>

NotStarted == << None, None, <<None, None>>, None, None, None, None, << >> >>

\* a step of build: stage k runs with every later stage not yet started,
\* leaves the outputs of all other stages as they are, and hands over to
\* stage k + 1 (or, for load_portfolio, raises)
StageStep ==
  \E k \in DOMAIN Stages :
    /\ pc = Stages[k]
    /\ \/ k < Len(Stages) /\ pc' = Stages[k + 1]
       \/ k = Len(Stages) /\ pc' = "returned"
       \/ k = 1 /\ pc' = "raised"
    /\ \A j \in DOMAIN Stages : j > k => Outputs[j] = NotStarted[j]
    /\ \A j \in DOMAIN Stages : j # k => Outputs'[j] = Outputs[j]

\* C20: within one build the stages run strictly in the order
\* load_portfolio, summarize_allocation, run_stress_tests, project_growth,
\* build_action_plan, assemble_blueprint, to_markdown, write file: each step
\* is taken by one stage, after the previous one has returned and before any
\* later one has started, it changes no other stage's output, and the file
\* is written by the last step only.
C20_StagesRunInOrder ==
  [][StageStep]_vars

\* build has run to its return and the report is in the output directory
C20_Witness ==
  /\ pc = "returned"
  /\ DOMAIN files = {OutputPath(as_of)}
  /\ files[OutputPath(as_of)] = markdown
  /\ markdown # None
  /\ app_blueprint # None
  /\ Len(projection) = BuildMonths
  /\ actions # << >>

\* the stages that consume the snapshot of load_portfolio
ConsumerStages ==
  {"summarize_allocation", "run_stress_tests", "project_growth",
   "build_action_plan"}

\* a step of one of these stages leaves the snapshot and the blueprint as
\* they are
SnapshotKept ==
  pc \in ConsumerStages =>
    /\ data_state' = data_state
    /\ blueprint' = blueprint

\* C21: after load_portfolio has returned, no step of summarize_allocation,
\* run_stress_tests, project_growth or build_action_plan (with its
\* generate_rebalance_actions and generate_concentration_actions) changes the
\* holdings snapshot (rows, their order, values and weights), the total
\* value or the blueprint; each only sets its own result.
C21_StagesLeaveSnapshotAlone ==
  [][SnapshotKept]_vars

\* the four stages have run on a portfolio whose second position is worth
\* more than its first: top_positions starts with the second, the snapshot
\* still has its input order and is what load_portfolio returned
C21_Witness ==
  /\ pc = "assemble_blueprint"
  /\ Len(data_state.holdings) >= 2
  /\ FLt(data_state.holdings[1].value, data_state.holdings[2].value)
  /\ data_state.holdings[1].symbol = 1
  /\ analytics.top_positions[1].symbol # 1
  /\ stress_tests # << >>
  /\ projection # << >>
  /\ actions # << >>

----------------------------------------------------------------------------
(* project_growth, checked under SpecGrowth: the horizon, the expected       *)
(* returns and the monthly contribution vary.                                *)

\* portfolios of up to two positions with equity weights 0, 1/4, 1/2, 3/4, 1
\* or undefined
SmallPortfolios == HoldingLists(2, {"equity", "bond"}, {0, 1, 3}, {1})

\* annual expected returns of 0 and 120%, i.e. 0 and 10% a month
ExpectedReturns == OptMaps({"equity", "bond"}, {Zero, Frac(6, 5)})

GrowthSections ==
  { BaseSections }
  \cup { ("expected_returns" :> er) @@ BaseSections : er \in ExpectedReturns }
  \cup { ("expected_returns" :> er)
         @@ ("action_templates" :> (("monthly_contribution" :> Num(100)) @@ BaseTemplates))
         @@ BaseSections : er \in ExpectedReturns }

GrowthBlueprints ==
  { WithHoldings(h, sec) : h \in SmallPortfolios, sec \in GrowthSections }

InitGrowth == InitWith(GrowthBlueprints, {AsOf}, 0..MaxMonths)

SpecGrowth == InitGrowth /\ [][Next]_vars

Projected ==
  pc \in {"build_action_plan", "assemble_blueprint", "to_markdown", "write_text",
          "returned"}

\* C4: whenever project_growth(months=N) has returned, the projection holds
\* exactly N points and the k-th point has month index k (none for N = 0).
C4_ProjectionHasNOrderedPoints ==
  Projected =>
    /\ Len(projection) = months
    /\ \A k \in 1..Len(projection) : projection[k].month = k

\* project_growth has returned for a horizon of at least two months
C4_Witness ==
  /\ Projected
  /\ months >= 2
  /\ Len(projection) >= 2

\* annual expected return of an asset class, 0 if none is configured
AnnualReturn(asset_class) ==
  LET expected_returns == Get(blueprint, "expected_returns", << >>)
  IN  IF asset_class \in DOMAIN expected_returns
      THEN expected_returns[asset_class] ELSE Zero

\* r: the sum over the positions of original weight x annual return / 12
BlendedMonthlyReturn ==
  PySum([i \in DOMAIN data_state.holdings |->
           FMul(data_state.holdings[i].weight,
                FDiv(AnnualReturn(data_state.holdings[i].asset_class), Num(12)))])

\* the configured monthly contribution, 0 if none is configured
Contribution ==
  LET templates == Get(blueprint, "action_templates", << >>)
  IN  IF "monthly_contribution" \in DOMAIN templates
      THEN templates["monthly_contribution"] ELSE Zero

\* C15: whenever project_growth has returned, the projected totals follow
\* total_0 = total value, total_m = total_(m-1) x (1 + r) + contribution, with
\* the same r (built from the weights load_portfolio computed) and the same
\* contribution in every month.
C15_ProjectionRecurrence ==
  Projected =>
    \A m \in 1..Len(projection) :
      LET before == IF m = 1 THEN data_state.total_value
                    ELSE projection[m - 1].projected_value
      IN  projection[m].projected_value =
            FAdd(FMul(before, FAdd(One, BlendedMonthlyReturn)), Contribution)

\* project_growth has returned a projection of at least two months for a
\* portfolio of positive value with a positive blended return and a monthly
\* contribution of 100
C15_Witness ==
  /\ Projected
  /\ Len(projection) >= 2
  /\ FGt(data_state.total_value, Zero)
  /\ FGt(BlendedMonthlyReturn, Zero)
  /\ Contribution = Num(100)
  /\ FGt(projection[2].projected_value, projection[1].projected_value)

----------------------------------------------------------------------------
(* run_stress_tests, checked under SpecStress: the configured scenarios vary *)

\* no position, one position, or an equity position followed by a bond position
StressPortfolios ==
  { h \in HoldingLists(2, {"equity", "bond"}, {0, 2}, {1}) :
      Len(h) = 2 => h[1].asset_class = "equity" /\ h[2].asset_class = "bond" }

\* scenario names in declaration order (not alphabetical)
ScenarioNames == <<"rally", "crash", "stagflation", "deflation">>

\* a scenario: shocks for "equity" and/or "default" of -50% or 0, or no
\* shocks key at all
Scenarios ==
  { [description |-> "what if", shocks |-> sh] :
      sh \in OptMaps({"equity", "default"}, {Frac(-1, 2), Zero}) }
  \cup { [description |-> "no shocks"] }

StressSections ==
  { [ user_profile |-> BaseSections.user_profile,
      policy_targets |-> BaseSections.policy_targets,
      action_templates |-> BaseTemplates ] }
  \cup { ("stress_tests" :> st) @@ BaseSections :
           st \in OrderedMaps(ScenarioNames, MaxScenarios, Scenarios) }

StressBlueprints ==
  { WithHoldings(h, sec) : h \in StressPortfolios, sec \in StressSections }

InitStress == InitWith(StressBlueprints, {AsOf}, {BuildMonths})

SpecStress == InitStress /\ [][Next]_vars

Stressed ==
  pc \in {"project_growth", "build_action_plan", "assemble_blueprint",
          "to_markdown", "write_text", "returned"}

Configured == Get(blueprint, "stress_tests", << >>)

ShocksOf(i) == Get(Configured[i].v, "shocks", << >>)

AllZero(shocks) == \A key \in DOMAIN shocks : shocks[key] = Zero

ChainShock(shocks, asset_class) ==
  CASE asset_class \in DOMAIN shocks -> shocks[asset_class]
    [] asset_class \notin DOMAIN shocks /\ "default" \in DOMAIN shocks -> shocks["default"]
    [] OTHER -> Zero

\* C10: whenever run_stress_tests has returned, the shocked value of every
\* position in every scenario is value x (1 + s), s being the scenario's shock
\* for the position's asset class if that key is present, else its "default"
\* shock if present, else 0.
C10_ShockFallbackChain ==
  Stressed =>
    \A i \in DOMAIN Configured :
      \A j \in DOMAIN data_state.holdings :
        shocked_values[i][j] =
          FMul(data_state.holdings[j].value,
               FAdd(One, ChainShock(ShocksOf(i), data_state.holdings[j].asset_class)))

\* a scenario with "equity" -> 0 and "default" -> -50% has run on an equity
\* and a bond position: the equity keeps its value, the bond loses half
C10_Witness ==
  /\ Stressed
  /\ \E i \in DOMAIN Configured :
       /\ DOMAIN ShocksOf(i) = {"equity", "default"}
       /\ ShocksOf(i)["equity"] = Zero
       /\ ShocksOf(i)["default"] = Frac(-1, 2)
       /\ \E j, k \in DOMAIN data_state.holdings :
            /\ data_state.holdings[j].asset_class = "equity"
            /\ data_state.holdings[k].asset_class = "bond"
            /\ shocked_values[i][j] = Num(2)
            /\ shocked_values[i][k] = One

\* C11: whenever run_stress_tests has returned, every outcome has
\* pnl = (sum over positions of the shocked values value x (1 + shock)) minus
\* the current total value, and pnl_pct = pnl / total; when the total is 0,
\* pnl_pct is 0 (the explicit branch), not the quotient by zero.
C11_PnlIsScenarioValueMinusTotal ==
  Stressed =>
    \A i \in DOMAIN stress_tests :
      LET total == data_state.total_value
          pnl == FSub(PySum(shocked_values[i]), total)
      IN  /\ stress_tests[i].pnl = pnl
          /\ total # Zero => stress_tests[i].pnl_pct = FDiv(pnl, total)
          /\ total = Zero => stress_tests[i].pnl_pct = Zero

\* a -50% equity shock has run on an equity position worth 2 and a bond
\* position worth 2: pnl -1 of 4
C11_Witness ==
  /\ Stressed
  /\ data_state.total_value = Num(4)
  /\ \E i \in DOMAIN stress_tests :
       stress_tests[i].pnl = Num(-1) /\ stress_tests[i].pnl_pct = Frac(-1, 4)

\* two scenarios have run on two positions worth 0 together
C11_WitnessZeroTotal ==
  /\ Stressed
  /\ data_state.total_value = Zero
  /\ Len(data_state.holdings) = 2
  /\ Len(stress_tests) = 2

\* C12: whenever run_stress_tests has returned, its result holds exactly one
\* outcome per configured scenario, the i-th outcome being that of the i-th
\* scenario declared in the blueprint; without a stress_tests section the
\* result is the empty list.
C12_OneOutcomePerScenarioInDeclarationOrder ==
  Stressed =>
    /\ Len(stress_tests) = Len(Configured)
    /\ \A i \in DOMAIN Configured : stress_tests[i].name = Configured[i].k
    /\ "stress_tests" \notin DOMAIN blueprint => stress_tests = << >>

\* two scenarios declared "rally" then "crash" have run on a portfolio on
\* which the first loses money and the second does not: the declaration order
\* is neither the order of the names nor the order of the P&L
C12_Witness ==
  /\ Stressed
  /\ Len(Configured) = 2
  /\ Configured[1].k = "rally" /\ Configured[2].k = "crash"
  /\ Len(stress_tests) = 2
  /\ FLt(stress_tests[1].pnl, stress_tests[2].pnl)

----------------------------------------------------------------------------
(* build_action_plan, checked under SpecActions: the policy targets, the     *)
(* rebalance threshold and the static notes vary.                            *)

\* no position, or an equity position followed by a bond position
ActionPortfolios ==
  { h \in SmallPortfolios :
      Len(h) # 1 /\ (Len(h) = 2 => h[1].asset_class = "equity" /\ h[2].asset_class = "bond") }

\* policy targets of 25% or 50% for up to MaxTargets of equity, bond and cash
\* (cash is never held), in any declaration order
PolicyTargets ==
  UNION { { [i \in DOMAIN keys |-> [k |-> keys[i], v |-> f[i]]] :
              f \in [DOMAIN keys -> {Quarter, Half}] } :
          keys \in DistinctSeqs({"equity", "bond", "cash"}, MaxTargets) }

NoteTexts == <<"Rebalance quarterly", "Automate contributions", "Keep a cash buffer",
               "Check fees">>

NoteLists ==
  { [i \in 1..k |-> [kind |-> "note", text |-> NoteTexts[i]]] : k \in 0..MaxNotes }

ActionTemplates ==
  { [max_single_position |-> Half] }
  \cup { [max_single_position |-> Half, rebalance_threshold |-> Quarter, notes |-> nl] :
           nl \in NoteLists }
  \cup { [max_single_position |-> Half, notes |-> nl] : nl \in NoteLists }

ActionSections ==
  { [ stress_tests |-> BaseScenarios, action_templates |-> at ] :
      at \in ActionTemplates }
  \cup { [ stress_tests |-> BaseScenarios, policy_targets |-> pt,
           action_templates |-> at ] :
           pt \in PolicyTargets, at \in ActionTemplates }

ActionBlueprints ==
  { WithHoldings(h, sec) : h \in ActionPortfolios, sec \in ActionSections }

InitActions == InitWith(ActionBlueprints, {AsOf}, {BuildMonths})

SpecActions == InitActions /\ [][Next]_vars

Planned == pc \in {"assemble_blueprint", "to_markdown", "write_text", "returned"}

Targets == Get(blueprint, "policy_targets", << >>)

Templates == Get(blueprint, "action_templates", << >>)

\* |current_weight - target_weight| of the t-th policy target
AbsDrift(t) ==
  FAbs(FSub(Get(analytics.weights, Targets[t].k, Zero), Targets[t].v))

RebalanceFor(t) ==
  { i \in DOMAIN actions :
      actions[i].kind = "rebalance" /\ actions[i].asset_class = Targets[t].k }

\* C6: whenever build_action_plan has returned, a policy target has a
\* rebalance action if and only if |current_weight - target_weight| >=
\* rebalance_threshold, and then exactly one; a drift equal to the threshold
\* counts.
C6_RebalanceIffDriftAtLeastThreshold ==
  Planned =>
    \A t \in DOMAIN Targets :
      IF FGe(AbsDrift(t), Get(Templates, "rebalance_threshold", Zero))
      THEN Cardinality(RebalanceFor(t)) = 1
      ELSE RebalanceFor(t) = {}

\* a plan in which one target drifts by exactly the positive threshold and has
\* its action, and another drifts by less and has none
C6_Witness ==
  /\ Planned
  /\ "rebalance_threshold" \in DOMAIN Templates
  /\ \E t, u \in DOMAIN Targets :
       /\ AbsDrift(t) = Templates["rebalance_threshold"]
       /\ RebalanceFor(t) # {}
       /\ FLt(AbsDrift(u), Templates["rebalance_threshold"])
       /\ RebalanceFor(u) = {}

\* current_weight of the t-th policy target: its class weight, 0 if the class
\* is absent from the allocation
CurrentWeight(t) ==
  IF Targets[t].k \in DOMAIN analytics.weights
  THEN analytics.weights[Targets[t].k] ELSE Zero

\* a dollar amount as the action prints it, to the whole dollar
WholeDollars(x) == Frac(RoundHalfEven(x), 1)

\* C16: whenever build_action_plan has returned, every rebalance action says
\* "Trim" when drift = current_weight - target_weight is > 0 and "Add"
\* otherwise, for the amount |drift| x total_value (printed to the whole
\* dollar); a class with a policy target that is absent from the allocation
\* counts as current weight 0 and gets, when its target is at least the
\* threshold, one "Add" action for target x total_value.
C16_RebalanceDirectionAndAmount ==
  Planned =>
    \A t \in DOMAIN Targets :
      LET drift == FSub(CurrentWeight(t), Targets[t].v)
          total == data_state.total_value
      IN  /\ \A i \in RebalanceFor(t) :
               /\ FGt(drift, Zero) => actions[i].direction = "Trim"
               /\ ~FGt(drift, Zero) => actions[i].direction = "Add"
               /\ actions[i].dollar = WholeDollars(FMul(FAbs(drift), total))
          /\ ( /\ Targets[t].k \notin DOMAIN analytics.weights
               /\ FGe(Targets[t].v, Get(Templates, "rebalance_threshold", Zero)) )
             => \E i \in DOMAIN actions :
                  /\ RebalanceFor(t) = {i}
                  /\ actions[i].direction = "Add"
                  /\ actions[i].dollar = WholeDollars(FMul(Targets[t].v, total))

\* a plan for an equity position worth 3 and a bond position worth 1 with
\* targets for equity (25%, held at 75%: Trim $2) and for cash (50%, not
\* held: Add $2)
C16_Witness ==
  /\ Planned
  /\ data_state.total_value = Num(4)
  /\ \E t, u \in DOMAIN Targets :
       /\ Targets[t].k = "equity" /\ Targets[t].v = Quarter
       /\ Targets[u].k = "cash" /\ Targets[u].v = Half
       /\ \E i \in RebalanceFor(t) :
            actions[i].direction = "Trim" /\ actions[i].dollar = Num(2)
       /\ \E i \in RebalanceFor(u) :
            actions[i].direction = "Add" /\ actions[i].dollar = Num(2)

\* the rebalance actions of the plan
RebalanceActions == { i \in DOMAIN actions : actions[i].kind = "rebalance" }

\* with no rebalance_threshold configured: one action for every policy
\* target, an "Add" of $0 for a target whose drift is exactly 0
EveryTargetActedOn ==
  \A t \in DOMAIN Targets :
    /\ Cardinality(RebalanceFor(t)) = 1
    /\ FSub(CurrentWeight(t), Targets[t].v) = Zero =>
         \A i \in RebalanceFor(t) :
           actions[i].direction = "Add" /\ actions[i].dollar = Zero

\* C23: whenever build_action_plan has returned for a blueprint without
\* rebalance_threshold, the plan has exactly one rebalance action for every
\* policy target whatever its drift, a target of drift exactly 0 getting an
\* "Add" action of magnitude 0; with or without a threshold there are never
\* more rebalance actions than policy targets.
C23_UnsetThresholdActsOnEveryTarget ==
  Planned =>
    /\ Cardinality(RebalanceActions) <= Len(Targets)
    /\ "rebalance_threshold" \notin DOMAIN Templates => EveryTargetActedOn

\* What holds: the same for every portfolio whose total value is not 0.
C23_UnsetThresholdActsOnEveryTargetOfValue ==
  (Planned /\ data_state.total_value # Zero) =>
    /\ Cardinality(RebalanceActions) <= Len(Targets)
    /\ "rebalance_threshold" \notin DOMAIN Templates => EveryTargetActedOn

\* a plan without rebalance_threshold for a portfolio held half in equity,
\* with an equity target of 50%: drift 0, one "Add" action of $0
C23_Witness ==
  /\ Planned
  /\ "rebalance_threshold" \notin DOMAIN Templates
  /\ FGt(data_state.total_value, Zero)
  /\ \E t \in DOMAIN Targets :
       /\ Targets[t].k = "equity"
       /\ CurrentWeight(t) = Targets[t].v
       /\ \E i \in RebalanceFor(t) :
            actions[i].direction = "Add" /\ actions[i].dollar = Zero

KindRank(a) ==
  CASE a.kind = "rebalance" -> 1
    [] a.kind = "reduce" -> 2
    [] a.kind = "note" -> 3

TopIndex(symbol) ==
  CHOOSE i \in DOMAIN analytics.top_positions :
    analytics.top_positions[i].symbol = symbol

IsNote(a) == a.kind = "note"

\* C9: whenever build_action_plan has returned, no action of a later group
\* precedes one of an earlier group (rebalance, then concentration, then
\* notes); rebalance actions follow the policy-target order, concentration
\* actions the top-position order, and the notes are the configured notes,
\* unmodified and in their configured order.
C9_PlanIsRebalanceThenConcentrationThenNotes ==
  Planned =>
    /\ \A i, j \in DOMAIN actions :
         i < j => KindRank(actions[i]) <= KindRank(actions[j])
    /\ \A i, j \in DOMAIN actions :
         (i < j /\ actions[i].kind = "rebalance" /\ actions[j].kind = "rebalance")
           => Lookup(Targets, actions[i].asset_class)
                < Lookup(Targets, actions[j].asset_class)
    /\ \A i, j \in DOMAIN actions :
         (i < j /\ actions[i].kind = "reduce" /\ actions[j].kind = "reduce")
           => TopIndex(actions[i].symbol) < TopIndex(actions[j].symbol)
    /\ SelectSeq(actions, IsNote) = Get(Templates, "notes", << >>)

\* a plan with two rebalance actions, a concentration action and two notes
C9_Witness ==
  /\ Planned
  /\ Len(actions) = 5
  /\ actions[1].kind = "rebalance"
  /\ actions[2].kind = "rebalance"
  /\ actions[3].kind = "reduce"
  /\ Len(Get(Templates, "notes", << >>)) = 2

----------------------------------------------------------------------------
(* generate_concentration_actions, checked under SpecConcentration:          *)
(* portfolios of up to MaxTopHoldings positions, the limit varies.           *)

\* up to MaxTopHoldings equity positions worth 1 or 2 each, or worthless ones
LargePortfolios ==
  HoldingLists(MaxTopHoldings, {"equity"}, {1, 2}, {1})
  \cup HoldingLists(2, {"equity"}, {0}, {1})

ConcentrationTemplates ==
  { [rebalance_threshold |-> Frac(1, 20)] }
  \cup { [rebalance_threshold |-> Frac(1, 20), max_single_position |-> m] :
           m \in {Frac(1, 10), Quarter} }

ConcentrationSections ==
  { [ policy_targets |-> BaseSections.policy_targets, action_templates |-> at ] :
      at \in ConcentrationTemplates }

ConcentrationBlueprints ==
  { WithHoldings(h, sec) : h \in LargePortfolios, sec \in ConcentrationSections }

InitConcentration == InitWith(ConcentrationBlueprints, {AsOf}, {BuildMonths})

SpecConcentration == InitConcentration /\ [][Next]_vars

ReduceFor(symbol) ==
  { i \in DOMAIN actions : actions[i].kind = "reduce" /\ actions[i].symbol = symbol }

Limit == Get(Templates, "max_single_position", One)

TopSymbols ==
  { analytics.top_positions[i].symbol : i \in DOMAIN analytics.top_positions }

\* C7 as claimed: whenever build_action_plan has returned, every position of
\* the portfolio whose weight exceeds max_single_position has exactly one
\* "Reduce" action, whatever the size of the portfolio.
C7_OneReducePerPositionOverLimit ==
  Planned =>
    \A j \in DOMAIN data_state.holdings :
      FGt(data_state.holdings[j].weight, Limit)
        => Cardinality(ReduceFor(data_state.holdings[j].symbol)) = 1

\* C7 as amended: whenever build_action_plan has returned, a position has
\* exactly one "Reduce" action if it is one of top_positions (the five largest
\* by value) and its weight exceeds max_single_position, and none otherwise.
C7_OneReducePerTopPositionOverLimit ==
  Planned =>
    \A j \in DOMAIN data_state.holdings :
      IF /\ data_state.holdings[j].symbol \in TopSymbols
         /\ FGt(data_state.holdings[j].weight, Limit)
      THEN Cardinality(ReduceFor(data_state.holdings[j].symbol)) = 1
      ELSE ReduceFor(data_state.holdings[j].symbol) = {}

\* a plan for six positions that all exceed the limit: five "Reduce" actions
C7_Witness ==
  /\ Planned
  /\ Len(data_state.holdings) = 6
  /\ \A j \in DOMAIN data_state.holdings :
       FGt(data_state.holdings[j].weight, Limit)
  /\ Cardinality({ i \in DOMAIN actions : actions[i].kind = "reduce" }) = 5

\* C8: whenever build_action_plan has returned, every "Reduce" action names
\* one of top_positions; a top position has a "Reduce" action if and only if
\* its weight is strictly greater than max_single_position; and with
\* max_single_position not configured the limit is 1.0 and there is no
\* "Reduce" action.
C8_ReduceIffTopWeightStrictlyOverLimit ==
  Planned =>
    /\ \A i \in DOMAIN actions :
         actions[i].kind = "reduce" => actions[i].symbol \in TopSymbols
    /\ \A t \in DOMAIN analytics.top_positions :
         (ReduceFor(analytics.top_positions[t].symbol) # {})
           <=> FGt(analytics.top_positions[t].weight, Limit)
    /\ "max_single_position" \notin DOMAIN Templates
         => /\ Limit = One
            /\ \A i \in DOMAIN actions : actions[i].kind # "reduce"

\* a plan in which one top position is strictly over the configured limit and
\* has its action, and another is exactly at the limit and has none
C8_Witness ==
  /\ Planned
  /\ "max_single_position" \in DOMAIN Templates
  /\ \E t, u \in DOMAIN analytics.top_positions :
       /\ FGt(analytics.top_positions[t].weight, Limit)
       /\ ReduceFor(analytics.top_positions[t].symbol) # {}
       /\ analytics.top_positions[u].weight = Limit
       /\ ReduceFor(analytics.top_positions[u].symbol) = {}

\* the positions of the portfolio that are not among top_positions
LeftOut ==
  { j \in DOMAIN data_state.holdings : data_state.holdings[j].symbol \notin TopSymbols }

\* top_positions holds min(5, n) positions, each a different position of the
\* portfolio, by value descending, and no position left out is worth more than
\* one that is kept
TopPositionsAreTheLargest ==
  LET top == analytics.top_positions
      n == Len(data_state.holdings)
  IN  /\ Len(top) = IF n < TopN THEN n ELSE TopN
      /\ \A i, j \in DOMAIN top : i < j => FGe(top[i].value, top[j].value)
      /\ \A i, j \in DOMAIN top : top[i].symbol = top[j].symbol => i = j
      /\ \A i \in DOMAIN top :
           /\ top[i].symbol \in DOMAIN data_state.holdings
           /\ top[i].value = data_state.holdings[top[i].symbol].value
      /\ \A j \in LeftOut : \A i \in DOMAIN top :
           FLe(data_state.holdings[j].value, top[i].value)

\* positions of equal value appear in top_positions in their input order (the
\* symbol of a position is its rank in the input)
TiesInInputOrder ==
  \A i, j \in DOMAIN analytics.top_positions :
    (i < j /\ analytics.top_positions[i].value = analytics.top_positions[j].value)
      => analytics.top_positions[i].symbol < analytics.top_positions[j].symbol

C13_TopPositionsSorted ==
  Summarized => TopPositionsAreTheLargest

\* summarize_allocation has returned for six positions, the first of them
\* among the smallest: it is left out, and the five kept include a tie
C13_Witness ==
  /\ Summarized
  /\ Len(data_state.holdings) = 6
  /\ 1 \in LeftOut
  /\ \E i, j \in DOMAIN analytics.top_positions :
       i < j /\ analytics.top_positions[i].value = analytics.top_positions[j].value

----------------------------------------------------------------------------
(* Missing sections, checked under SpecSections: every subset of the         *)
(* sections of the blueprint is left out.                                    *)

\* a document with every section build reads
FullSections ==
  [ user_profile |-> [risk_tolerance |-> "moderate"],
    stress_tests |-> BaseScenarios,
    expected_returns |-> [equity |-> Num(6)],
    policy_targets |-> << [k |-> "equity", v |-> Half] >>,
    action_templates |-> BaseTemplates ]

\* the document without the sections of S
Without(sections, S) == [k \in DOMAIN sections \ S |-> sections[k]]

\* one equity position, or an equity and a bond position of equal value
SectionPortfolios ==
  { h \in HoldingLists(2, {"equity", "bond"}, {2}, {1}) :
      /\ Len(h) >= 1
      /\ h[1].asset_class = "equity"
      /\ Len(h) = 2 => h[2].asset_class = "bond" }

\* with the holdings present, with portfolio lacking its holdings key, and
\* with no portfolio section at all
SectionBlueprints ==
  UNION { { WithHoldings(h, Without(FullSections, S)) : h \in SectionPortfolios }
          \cup { ("portfolio" :> << >>) @@ Without(FullSections, S),
                 Without(FullSections, S) } :
          S \in SUBSET DOMAIN FullSections }

InitSections == InitWith(SectionBlueprints, {AsOf}, {BuildMonths})

SpecSections == InitSections /\ [][Next]_vars

\* the blueprint has the list portfolio.holdings
HasHoldings ==
  IF "portfolio" \in DOMAIN blueprint
  THEN "holdings" \in DOMAIN blueprint["portfolio"]
  ELSE FALSE

\* C17: whichever of the sections portfolio.holdings, user_profile,
\* stress_tests, expected_returns, policy_targets and action_templates are
\* missing from the blueprint, build does not raise.
C17_BuildNeverRaises ==
  pc # "raised"

\* What holds: build raises only when portfolio.holdings is not there to
\* load; the other five sections may be missing in any combination.
C17_RaisesOnlyWithoutHoldings ==
  pc = "raised" => (~HasHoldings \/ blueprint["portfolio"]["holdings"] = << >>)

\* build has written its report for a blueprint that has holdings and none of
\* the other five sections
C17_Witness ==
  /\ pc = "returned"
  /\ DOMAIN blueprint = {"portfolio"}
  /\ stress_tests = << >>
  /\ actions = << >>
  /\ Len(projection) = BuildMonths

----------------------------------------------------------------------------
(* The as-of date, checked under SpecAsOf: run_consumer_quant is run for one *)
(* as-of date and then for another, on the same blueprint file and the same  *)
(* output directory.                                                         *)

AsOfDates == {"2025-01-31", "2025-02-28"}

AsOfBlueprints ==
  { WithHoldings(h, FullSections) :
      h \in HoldingLists(2, {"equity", "bond"}, {0, 2}, {1}) }

InitAsOf == InitWith(AsOfBlueprints, AsOfDates, {BuildMonths})

\* run_consumer_quant(as_of) is called for a date not built yet: a new
\* framework loads the same blueprint and build starts with fresh locals
BuildAgain ==
  /\ pc = "returned"
  /\ \E date \in AsOfDates \ DOMAIN reports : as_of' = date
  /\ pc' = "load_portfolio"
  /\ data_state' = None
  /\ analytics' = None
  /\ shocked_values' = None
  /\ stress_tests' = None
  /\ projection' = None
  /\ actions' = None
  /\ app_blueprint' = None
  /\ markdown' = None
  /\ UNCHANGED <<daily, blueprint, months, sort_ties, files, reports>>

NextAsOf ==
  \/ Next
  \/ BuildAgain

SpecAsOf == InitAsOf /\ [][NextAsOf]_vars

\* C19: any two builds of the same blueprint for different as-of dates
\* produce the same weights, top positions, Herfindahl index, stress-test
\* outcomes, projection and action list; the date shows only as the as_of
\* label of the blueprint, the title of the report and the name of the file.
C19_AsOfOnlyLabelsTheReport ==
  \A d, e \in DOMAIN reports :
    /\ reports[d].as_of = d
    /\ reports[d].portfolio = reports[e].portfolio
    /\ reports[d].analytics = reports[e].analytics
    /\ reports[d].actions = reports[e].actions
    /\ reports[d] = [reports[e] EXCEPT !.as_of = d]
    /\ OutputPath(d) \in DOMAIN files
    /\ d # e => OutputPath(d) # OutputPath(e)
    /\ files[OutputPath(d)] = [files[OutputPath(e)] EXCEPT !.title = d]

\* two builds for two dates have written their reports, for a portfolio of
\* positive value with stress-test outcomes, a projection and actions
C19_Witness ==
  /\ pc = "returned"
  /\ DOMAIN reports = AsOfDates
  /\ Cardinality(DOMAIN files) = 2
  /\ FGt(data_state.total_value, Zero)
  /\ stress_tests # << >>
  /\ projection # << >>
  /\ actions # << >>

----------------------------------------------------------------------------
(* run_daily, checked under SpecDaily: the benchmarks configuration, the     *)
(* rows in the warehouse and the GITHUB_TOKEN of the environment vary.       *)

\* asset classes in the order the configuration declares them
ClassNames == <<"equities", "fixed_income", "commodities", "fx">>

UniverseSizes == {0, 2, MaxUniverse}

\* the universe of the c-th class: n benchmark ids
UniverseOf(c, n) == [j \in 1..n |-> 10 * c + j]

\* benchmarks section with the universes of sizes[1..k]
BenchmarksCfg(sizes) ==
  [c \in DOMAIN sizes |->
     [ k |-> ClassNames[c],
       v |-> [ universe |-> UniverseOf(c, sizes[c]), frequency |-> "daily" ] ]]

Row(day, id) == [AS_OF_DATE |-> day, BENCHMARK_ID |-> id, DAILY_RETURN |-> Zero]

\* the rows the warehouse holds for a class of which the first r benchmarks
\* have data: one row each for day 1, and a second row of the first for day 2
RowsOf(c, r) ==
  [j \in 1..r |-> Row(1, 10 * c + j)]
  \o (IF r >= 1 THEN <<Row(2, 10 * c + 1)>> ELSE << >>)

\* the table: a row of a benchmark no universe names, then the rows of the
\* classes
RECURSIVE TableOf(_, _)
TableOf(received, k) ==
  IF k = 0 THEN <<Row(1, 0)>>
  ELSE TableOf(received, k - 1) \o RowsOf(k, received[k])

Environs ==
  { << >>, [GITHUB_TOKEN |-> ""], [GITHUB_TOKEN |-> "ghp_token"] }

ModelsCfgs ==
  { << >>, [factor_timing |-> [enabled |-> TRUE, horizons |-> <<1, 5>>]] }

DashboardsCfg ==
  [ daily_overview |->
      [ outputs |-> << [file |-> "daily_overview.json",
                        description |-> "Daily overview"] >> ] ]

\* configurations of up to MaxClasses classes with the rows received for them
DailyWorlds ==
  UNION { { [ benchmarks |-> BenchmarksCfg(sizes),
              table |-> TableOf(received, Len(sizes)) ] :
            received \in { r \in [DOMAIN sizes -> 0..MaxUniverse] :
                             \A c \in DOMAIN sizes : r[c] <= sizes[c] } } :
          sizes \in UNION { [1..k -> UniverseSizes] : k \in 0..MaxClasses } }

\* run_daily is entered, its agents constructed; build is not run
InitDaily ==
  /\ blueprint = None
  /\ as_of = AsOf
  /\ months = BuildMonths
  /\ sort_ties = "input_order"
  /\ pc = "idle"
  /\ data_state = None
  /\ analytics = None
  /\ shocked_values = None
  /\ stress_tests = None
  /\ projection = None
  /\ actions = None
  /\ app_blueprint = None
  /\ markdown = None
  /\ files = << >>
  /\ reports = << >>
  /\ \E w \in DailyWorlds, m \in ModelsCfgs :
       /\ daily_cfg = [ benchmarks |-> w.benchmarks, models |-> m,
                        dashboards |-> DashboardsCfg ]
       /\ warehouse = w.table
  /\ github_token \in { Getenv(e, "GITHUB_TOKEN") : e \in Environs }
  /\ daily_pc = "load_cross_asset_returns"
  /\ data_bundle = None
  /\ model_results = None
  /\ summary_path = None
  /\ loop_index = 0
  /\ requests = << >>

SpecDaily == InitDaily /\ [][NextDaily]_vars

\* the distinct benchmarks of the c-th configured class that have rows in
\* the warehouse
ReceivedOf(c) ==
  { warehouse[j].BENCHMARK_ID : j \in DOMAIN warehouse }
    \cap { daily_cfg.benchmarks[c].v.universe[j] :
             j \in DOMAIN daily_cfg.benchmarks[c].v.universe }

ExpectedOf(c) == Len(daily_cfg.benchmarks[c].v.universe)

\* received / expected < 0.8, a class with nothing expected counting as 1.0
CoverageLow(c) ==
  ExpectedOf(c) > 0 /\ 5 * Cardinality(ReceivedOf(c)) < 4 * ExpectedOf(c)

\* the classes due an issue, in the order of the configuration (which is the
\* order of the diagnostics)
RECURSIVE DueUpTo(_)
DueUpTo(c) ==
  IF c = 0 THEN << >>
  ELSE IF CoverageLow(c) THEN Append(DueUpTo(c - 1), daily_cfg.benchmarks[c].k)
       ELSE DueUpTo(c - 1)

Due == DueUpTo(Len(daily_cfg.benchmarks))

Sent == [i \in DOMAIN requests |-> requests[i].asset_class]

IsPrefix(a, b) == Len(a) <= Len(b) /\ a = SubSeq(b, 1, Len(a))

SummaryAndFeedsWritten ==
  /\ SummaryPath(as_of) \in DOMAIN files
  /\ FeedPath("daily_overview.json") \in DOMAIN files

\* C22: the requests run_daily posts to the issues API are, in the order of
\* the diagnostics, one for each asset class whose coverage (distinct
\* benchmarks received / benchmarks expected, 1.0 when none are expected) is
\* strictly below 0.8 and none for any other class (none at exactly 0.8):
\* all of them once run_daily has returned, a prefix of them before; none is
\* posted before the summary and the dashboard feeds are written; without a
\* token none is posted at all.
C22_IssuesForLowCoverageAfterReports ==
  /\ IsPrefix(Sent, Due)
  /\ requests # << >> => SummaryAndFeedsWritten
  /\ NoToken(github_token) => requests = << >>
  /\ (daily_pc = "returned" /\ ~NoToken(github_token)) => Sent = Due

\* run_daily has returned with a token set: the first class received 4 of
\* its 5 benchmarks (coverage exactly 0.8, no issue), the second 1 of 2 (one
\* issue)
C22_Witness ==
  /\ daily_pc = "returned"
  /\ ~NoToken(github_token)
  /\ Len(daily_cfg.benchmarks) = 2
  /\ ExpectedOf(1) = 5 /\ Cardinality(ReceivedOf(1)) = 4
  /\ ExpectedOf(2) = 2 /\ Cardinality(ReceivedOf(2)) = 1
  /\ Sent = <<"fixed_income">>
  /\ SummaryAndFeedsWritten

=============================================================================
